---- MODULE Spec2Model ----
(***************************************************************************)
(* Render loops of the Studio Struweg generative backgrounds.              *)
(*                                                                         *)
(* Eight component variants share one design: React effects register       *)
(* window/canvas listeners and a session interval, start a                 *)
(* requestAnimationFrame loop, and tear both down in the effect cleanup.   *)
(*   Stable    src/src/App.jsx 1-299      (module-level stateRef points)   *)
(*   Sphere    src/src/App.jsx 301-608    (points rebuilt per effect run)  *)
(*   Sphere65  src/unnamed/part_000       (65%-canvas sphere)              *)
(*   WebGL     src/unnamed/part_001 1-275 (shader attractor)               *)
(*   Tracer    src/unnamed/part_001 277-  (PathTracer, glow)               *)
(*   Dots      src/unnamed/part_002       (PathTracer, dots)               *)
(*   Curve     src/unnamed/part_003       (AttractorCurve)                 *)
(*   Wave      src/src/WaveFieldGenerator.jsx                              *)
(***************************************************************************)
EXTENDS Integers, Sequences, FiniteSets, TLC

(***************************************************************************)
(* Bounds of the model.                                                    *)
(***************************************************************************)
\* effect runs (mount + re-runs + re-mounts) explored per behaviour
MaxGen == 2
\* size of the requestAnimationFrame handle space (handles are recycled)
MaxId == 3
\* largest scrollHeight - clientHeight offered to a scroll event
MaxScroll == 1
\* clock steps of ClockStepMs explored after the epoch
MaxClock == 2

\* frames drawn on one entity
MaxFrames == 2

\* maxPoints of AttractorCurve (3000 in the source), scaled down so that the
\* trail fills up within the frames followed
MaxPoints == 3

\* subdivisions of the scrollDepth / sessionTime grids of the properties
GridSteps == 4

(***************************************************************************)
(* Numbers.  A JavaScript double is modelled as an exact rational <<n, d>> *)
(* in lowest terms with d > 0; d = 0 stands for the non-finite values      *)
(* (NaN = <<0,0>>, +Infinity = <<1,0>>, -Infinity = <<-1,0>>).             *)
(***************************************************************************)
Abs(x) == IF x < 0 THEN -x ELSE x

RECURSIVE GCD(_, _)
GCD(m, n) == IF n = 0 THEN m ELSE GCD(n, m % n)

NaN == <<0, 0>>

Sign(x) == IF x > 0 THEN 1 ELSE IF x < 0 THEN -1 ELSE 0

\* n / d as JavaScript evaluates it (0/0 is NaN, x/0 is +-Infinity)
Q(n, d) ==
  IF d = 0 THEN <<Sign(n), 0>>
  ELSE LET g == GCD(Abs(n), Abs(d))
           s == IF d < 0 THEN -1 ELSE 1
       IN  <<(s * n) \div g, (s * d) \div g>>

Num(n) == <<n, 1>>

IsFinite(x) == x[2] # 0

IsNaN(x) == x = NaN

\* arithmetic on finite values
LCM(m, n) == (m \div GCD(m, n)) * n

RAdd(x, y) ==
  LET l == LCM(x[2], y[2])
  IN  Q(x[1] * (l \div x[2]) + y[1] * (l \div y[2]), l)

RNeg(x) == <<-x[1], x[2]>>

RSub(x, y) == RAdd(x, RNeg(y))

RMul(x, y) == Q(x[1] * y[1], x[2] * y[2])

RDiv(x, y) == Q(x[1] * y[2], x[2] * y[1])

RLe(x, y) == RSub(x, y)[1] <= 0

RLt(x, y) == RSub(x, y)[1] < 0

RMin(x, y) == IF RLe(x, y) THEN x ELSE y

\* Math.floor
RFloor(x) == x[1] \div x[2]

\* Math.trunc, used by the remainder operator
RTrunc(x) == IF x[1] >= 0 THEN x[1] \div x[2] ELSE -((-x[1]) \div x[2])

\* x % m of JavaScript: the remainder takes the sign of the dividend
RRem(x, m) == RSub(x, RMul(Num(m), Num(RTrunc(RDiv(x, Num(m))))))

IsInteger(x) == x[2] = 1

(***************************************************************************)
(* Math.sin / Math.cos on an angle given in milliradians, by Bhaskara's    *)
(* rational approximation; the result is in thousandths.                   *)
(***************************************************************************)
PiMilli == 3142

SinMilli(mr) ==
  LET r    == mr % (2 * PiMilli)
      h    == IF r < PiMilli THEN r ELSE r - PiMilli
      p    == h * (PiMilli - h)
      den  == (5 * PiMilli * PiMilli - 4 * p) \div 1000
      v    == (16 * p) \div den
      c    == IF v > 1000 THEN 1000 ELSE v
  IN  IF r < PiMilli THEN c ELSE -c

CosMilli(mr) == SinMilli(mr + PiMilli \div 2)

Sin(mr) == Q(SinMilli(mr), 1000)

Cos(mr) == Q(CosMilli(mr), 1000)

(***************************************************************************)
(* Variants.                                                               *)
(***************************************************************************)
Variants ==
  {"Stable", "Sphere", "Sphere65", "WebGL", "Tracer", "Dots", "Curve", "Wave"}

\* the spherical point clouds
SphereVariants == {"Stable", "Sphere", "Sphere65"}

\* the chaotic-attractor variants
AttractorVariants == {"WebGL", "Tracer", "Dots", "Curve"}

\* the variants that trace the attractor with stateful entities
TracingVariants == {"Tracer", "Dots", "Curve"}

\* scrollDepth / sessionTime held in React state and captured by the effect
StateVariants == {"Stable", "Sphere", "Sphere65", "WebGL", "Curve"}

\* scrollDepth / sessionTime held in refs and read by every frame
RefVariants == {"Tracer", "Dots"}

\* the animation effect lists sessionTime among its dependencies
SessionDepVariants == {"WebGL", "Curve"}

(***************************************************************************)
(* Scroll position: handleScroll.                                          *)
(***************************************************************************)
ScrollRatioUnguarded(winScroll, height) == Q(winScroll, height)

ScrollRatio(winScroll, height) ==
  IF height > 0 THEN Q(winScroll, height) ELSE Num(0)

(***************************************************************************)
(* Parameter modulator: the per-frame formulas of animate / draw / the     *)
(* vertex shader.  s is scrollDepth, t is sessionTime in seconds, now is   *)
(* Date.now() in milliseconds.                                             *)
(***************************************************************************)
\* seconds after which the engagement measure saturates
SaturationSeconds(v) == IF v = "Curve" THEN 120 ELSE 60

EngagementUnclamped(v, t) == RDiv(t, Num(SaturationSeconds(v)))

\* Math.min(sessionTime / 60, 1)   (120 in the curve variant)
Engagement(v, t) == RMin(RDiv(t, Num(SaturationSeconds(v))), Num(1))

\* timeInfluence (the session uniform in the shader variant)
TimeInfluence(v, t) ==
  CASE v = "WebGL" -> Engagement(v, t)
    [] v = "Curve" -> RMul(Engagement(v, t), Q(1, 10))
    [] OTHER       -> RMul(Engagement(v, t), Q(2, 10))

\* the clock argument of the sinusoids, in milliradians
ClockMilli(v, now) ==
  CASE v = "WebGL" -> now \div 10       \* time = Date.now() * 0.0001
    [] v = "Curve" -> now \div 100      \* time = Date.now() * 0.00001
    [] OTHER       -> now \div 50       \* globalTime = now * 0.00002

\* base constants [baseA, baseB, baseC, baseD]
Base(v) ==
  IF v \in {"WebGL", "Curve"}
  THEN [a |-> Q(14, 10), b |-> Q(-23, 10), c |-> Q(24, 10), d |-> Q(-21, 10)]
  ELSE [a |-> Q(17, 10), b |-> Q(-19, 10), c |-> Q(22, 10), d |-> Q(-18, 10)]

\* the sinusoidal drift added to a
DriftA(v, now) ==
  LET m == ClockMilli(v, now)
  IN  CASE v = "WebGL" -> RMul(Sin((m * 5) \div 10), Q(5, 100))
        [] v = "Curve" -> RMul(Sin(m), Q(5, 100))
        [] OTHER       -> RMul(Sin((m * 8) \div 10), Q(1, 10))

\* the sinusoidal drift added to d
DriftD(v, now) ==
  LET m == ClockMilli(v, now)
  IN  CASE v = "WebGL" -> RMul(Cos((m * 3) \div 10), Q(8, 100))
        [] v = "Curve" -> RMul(Cos((m * 8) \div 10), Q(8, 100))
        [] OTHER       -> RMul(Cos((m * 7) \div 10), Q(15, 100))

\* scrollInfluence, the scroll term of a
ScrollInfluence(v, s) ==
  CASE v = "Tracer" -> RMul(s, Q(3, 10))
    [] v = "Dots"   -> RMul(s, Q(25, 100))
    [] OTHER        -> RMul(s, Q(2, 10))

ScrollCUnscaled(v, s) ==
  CASE v = "WebGL"  -> RMul(s, Q(2, 10))
    [] v = "Curve"  -> ScrollInfluence(v, s)
    [] OTHER        -> RMul(s, Q(3, 10))

\* the scroll term subtracted from c
ScrollC(v, s) ==
  CASE v = "WebGL"  -> RMul(s, Q(15, 100))
    [] v = "Curve"  -> RMul(ScrollInfluence(v, s), Q(2, 10))
    [] v = "Tracer" -> RMul(s, Q(3, 10))
    [] OTHER        -> RMul(s, Q(25, 100))

\* the session term added to b
SessionB(v, t) ==
  CASE v = "WebGL" -> RMul(TimeInfluence(v, t), Q(1, 10))
    [] v = "Curve" -> TimeInfluence(v, t)
    [] OTHER       -> RMul(TimeInfluence(v, t), Q(5, 10))

\* the attractor coefficients a, b, c, d of one frame
Coefficients(v, s, t, now) ==
  [a |-> RAdd(RAdd(Base(v).a, ScrollInfluence(v, s)), DriftA(v, now)),
   b |-> RAdd(Base(v).b, SessionB(v, t)),
   c |-> RSub(Base(v).c, ScrollC(v, s)),
   d |-> RAdd(Base(v).d, DriftD(v, now))]

\* variants that compute a symmetry count in the frame
SymmetryVariants == {"Tracer", "Dots", "Curve"}

SymmetryNoBase(v, s, t) ==
  RFloor(RAdd(RMul(s, Num(4)), RMul(TimeInfluence(v, t), Num(3))))

\* the symmetry count of one frame
Symmetry(v, s, t) ==
  CASE v = "Tracer" ->
         RFloor(RAdd(RAdd(Num(4), RMul(s, Num(4))),
                     RMul(TimeInfluence(v, t), Num(3))))
    [] v = "Curve" ->
         RFloor(RAdd(RAdd(Num(3), RMul(s, Num(2))),
                     RMul(TimeInfluence(v, t), Num(2))))
    [] OTHER -> 8

\* variants that derive a hue from scrollDepth
HueVariants == SphereVariants \cup {"WebGL", "Tracer", "Curve"}

HueWrapping(v, s, now) ==
  RRem(RAdd(RAdd(Num(320), RMul(s, Num(60))),
            RMul(Sin((ClockMilli(v, now) * 3) \div 10), Num(30))), 360)

\* the hue of one frame
Hue(v, s, now) ==
  LET m == ClockMilli(v, now)
  IN  CASE v = "Tracer" ->
             RRem(RAdd(RAdd(Num(220), RMul(s, Num(60))),
                       RMul(Sin((m * 3) \div 10), Num(30))), 360)
        [] v = "Curve" ->
             RAdd(RAdd(Num(200), RMul(s, Num(30))),
                  RMul(Sin((m * 3) \div 10), Num(10)))
        [] v = "WebGL" ->
             RAdd(RAdd(Q(55, 100), RMul(s, Q(15, 100))),
                  RMul(Sin((m * 2) \div 10), Q(5, 100)))
        [] OTHER -> RSub(Num(220), RMul(s, Num(80)))      \* getColor

\* variants that derive a drawing scale from the canvas size
ScaleVariants == {"Tracer", "Dots", "Curve"}

MinOf(m, n) == IF m <= n THEN m ELSE n

\* scale = Math.min(canvas.width, canvas.height) * k
Scale(v, size) ==
  RMul(Num(MinOf(size[1], size[2])),
       IF v = "Dots" THEN Q(35, 100) ELSE Q(25, 100))

\* alpha = 0.4 + scrollDepth * 0.3
Alpha(v, s) == RAdd(Q(4, 10), RMul(s, Q(3, 10)))

\* the GlobalParameters snapshot a frame derives
NoParams == [variant |-> "none"]

\* the inputs a frame of variant v reads and the parameters it derives
ParamFields(v) ==
  CASE v \in SphereVariants -> {"variant", "scroll", "hue"}
    [] v = "WebGL" ->
         {"variant", "scroll", "session", "now", "coef", "hue", "alpha"}
    [] v = "Tracer" ->
         {"variant", "scroll", "session", "now", "coef", "symmetry", "hue",
          "scale", "alpha"}
    [] v = "Dots" ->
         {"variant", "scroll", "session", "now", "coef", "symmetry", "scale"}
    [] v = "Curve" ->
         {"variant", "scroll", "session", "now", "coef", "symmetry", "hue",
          "scale"}
    [] OTHER -> {"variant"}

\* one field of the snapshot, from the inputs of the frame
Derive(v, f, s, t, now, size) ==
  CASE f = "variant"  -> v
    [] f = "scroll"   -> s
    [] f = "session"  -> t
    [] f = "now"      -> now
    [] f = "coef"     -> Coefficients(v, s, t, now)
    [] f = "symmetry" -> Symmetry(v, s, t)
    [] f = "hue"      -> Hue(v, s, now)
    [] f = "scale"    -> Scale(v, size)
    [] f = "alpha"    -> Alpha(v, s)

Params(v, s, t, now, size) ==
  [f \in ParamFields(v) |-> Derive(v, f, s, t, now, size)]

(***************************************************************************)
(* Host environment.                                                       *)
(***************************************************************************)
\* window.innerWidth / window.innerHeight offered to mount and resize
Sizes == {<<800, 600>>, <<600, 800>>}

\* viewports a canvas is created in, up to a 4K display
Viewports == {<<800, 600>>, <<3840, 2160>>}

\* a phone held upright
Handsets == {<<375, 667>>}

\* Date.now() at the start of a behaviour, in milliseconds
Epochs == {1234567890}

\* milliseconds per clock step: one saturation period of the session measure
ClockStepMs == SaturationSeconds("WebGL") * 1000

\* rotational point count of the stable sphere (POINTS)
StablePoints == 1500

\* POINTS of the 65%-canvas sphere
Sphere65Points == 1000

\* GRID_SIZE of the wave field
GridSize == 80

CanvasListeners ==
  {"canvas.mousemove", "canvas.mousedown", "canvas.mouseup",
   "canvas.mouseleave", "canvas.touchstart", "canvas.touchmove",
   "canvas.touchend", "canvas.touchcancel"}

VARIABLES
  env,           \* variant and what the host provides (fixed per behaviour)
  phase,         \* "init", "mounted", "crashed" (an effect threw), "unmounted"
  gen,           \* number of animation-effect runs so far; tags closures
  live,          \* effects whose setup returned a cleanup: [eff, g]
  listeners,     \* registered event listeners: <<target.type, g>>
  timers,        \* running setInterval timers, by owning effect run
  pending,       \* scheduled requestAnimationFrame callbacks: [id, g]
  closures,      \* per effect run: captured scrollDepth/sessionTime, animationId
  animationRef,  \* animationRef.current (0 is null)
  deps,          \* dependency values of the last animation-effect run
  scrollDepth,   \* scrollDepth state / scrollDepthRef.current
  sessionTime,   \* sessionTime state / sessionTimeRef.current
  clock,         \* clock steps elapsed since the epoch
  startTime,     \* startTimeRef.current
  window,        \* <<window.innerWidth, window.innerHeight>>
  canvasSize,    \* <<canvas.width, canvas.height>>
  pointCount,    \* length of the entity array (stateRef.points, points, grid)
  mouse,         \* mouse.active and isDragging of the current effect run
  errors,        \* exceptions raised so far
  logs,          \* console.error messages written so far
  params,        \* GlobalParameters derived by the last frame
  radius,        \* stateRef.RADIUS / RADIUS of the sphere variants
  entities,      \* the entity set in use: the run that built it, its radius
  ent,           \* one entity and the per-effect locals that move it
  wave,          \* dynamicWavePropsRef and the wave components sharing it
  hist           \* history: what the last frame did, which runs were torn down

\* the component, its effects and the host
hostVars ==
  <<env, phase, gen, live, listeners, timers, pending, closures,
    animationRef, deps, scrollDepth, sessionTime, clock, startTime, window,
    canvasSize, pointCount, mouse, errors, logs, params, radius, entities,
    hist>>

vars == <<hostVars, ent, wave>>

\* Date.now()
Now == env.epoch + clock * ClockStepMs

\* the mutable state as one record, so that effect bodies can be composed
Cur ==
  [phase |-> phase, gen |-> gen, live |-> live, listeners |-> listeners,
   timers |-> timers, pending |-> pending, handle |-> 0,
   closures |-> closures, animationRef |-> animationRef, deps |-> deps,
   scrollDepth |-> scrollDepth, sessionTime |-> sessionTime,
   clock |-> clock, startTime |-> startTime, window |-> window,
   canvasSize |-> canvasSize, pointCount |-> pointCount, mouse |-> mouse,
   errors |-> errors, logs |-> logs, params |-> params, radius |-> radius,
   entities |-> entities, hist |-> hist, crashed |-> FALSE]

Install(st) ==
  /\ phase' = st.phase
  /\ gen' = st.gen
  /\ live' = st.live
  /\ listeners' = st.listeners
  /\ timers' = st.timers
  /\ pending' = st.pending
  /\ closures' = st.closures
  /\ animationRef' = st.animationRef
  /\ deps' = st.deps
  /\ scrollDepth' = st.scrollDepth
  /\ sessionTime' = st.sessionTime
  /\ clock' = st.clock
  /\ startTime' = st.startTime
  /\ window' = st.window
  /\ canvasSize' = st.canvasSize
  /\ pointCount' = st.pointCount
  /\ mouse' = st.mouse
  /\ errors' = st.errors
  /\ logs' = st.logs
  /\ params' = st.params
  /\ radius' = st.radius
  /\ entities' = st.entities
  /\ hist' = st.hist
  /\ UNCHANGED <<env, ent, wave>>

NoMouse == [active |-> FALSE, dragging |-> FALSE]

\* sched: requestAnimationFrame calls made by the last executed frame
\* callback (-1: no frame callback has executed yet)
NoHist == [tornDown |-> {}, lateFrame |-> FALSE, sched |-> -1]

EmptyMap == [g \in {} |-> 0]

\* no entity set has been built (batch 0)
NoEntities == [batch |-> 0, radius |-> Num(0)]

\* project has not been called
NoCall ==
  [by |-> "none", p |-> [x |-> Num(0), y |-> Num(0), z |-> Num(0)],
   rotY |-> 0, rotX |-> 0,
   px |-> Num(0), py |-> Num(0), scale |-> Num(0), z |-> Num(0)]

\* no frame of the wave field has been drawn
NoDrawn ==
  [by |-> 0, p |-> <<0, 0>>, freq |-> Num(0), amp |-> Num(0),
   z |-> Num(0), colorFactor |-> Num(0)]

\* instances of ComputationalWaveField a page can hold
Instances == {1, 2}

\* the module-level parameter object and, per instance, the useState
\* values behind the labels (unmounted: not mounted) and tRef.current
NoWave ==
  [ref |-> [frequency |-> Num(3), amplitude |-> Num(25)],
   label |-> [i \in Instances |-> [mounted |-> FALSE, frequency |-> Num(0),
                                    amplitude |-> Num(0)]],
   t |-> [i \in Instances |-> 0],
   drawn |-> NoDrawn]

\* the locals of an animation effect before it has run: angles and
\* velocities in microradians, positions of a tracer in thousandths
NoEnt ==
  [made |-> FALSE, size |-> <<0, 0>>, R |-> Num(0),
   rotX |-> 0, rotY |-> 0, velocityX |-> 0, velocityY |-> 0,
   mouse |-> [x |-> 0, y |-> 0, active |-> FALSE], isDragging |-> FALSE,
   t |-> 0, call |-> NoCall, x |-> 0, y |-> 0,
   \* history: a press or touch has begun and not been released since
   held |-> FALSE,
   \* canvas.width / canvas.height now (size: as captured by the effect)
   canvas |-> <<0, 0>>,
   \* the curve's trail, and (history) every position it has taken
   points |-> <<>>, visited |-> <<>>]

Init ==
  /\ env \in [variant : Variants, canvas : BOOLEAN, ctx : BOOLEAN,
              vs : BOOLEAN, fs : BOOLEAN, link : BOOLEAN,
              attachThrows : BOOLEAN, epoch : Epochs]
  \* shader outcomes exist only where shaders are compiled, and the
  \* treatment of a null shader only where a compile failed
  /\ (env.variant # "WebGL" \/ ~env.canvas \/ ~env.ctx) =>
       env.vs /\ env.fs /\ env.link
  /\ (env.vs /\ env.fs) => ~env.attachThrows
  \* a program with a shader that did not compile does not link
  /\ env.link => (env.vs /\ env.fs)
  /\ phase = "init"
  /\ gen = 0
  /\ live = {}
  /\ listeners = {}
  /\ timers = {}
  /\ pending = {}
  /\ closures = EmptyMap
  /\ animationRef = 0
  /\ deps = <<Num(0), Num(0)>>
  /\ scrollDepth = Num(0)
  /\ sessionTime = Num(0)
  /\ clock = 0
  /\ startTime = env.epoch
  /\ window = <<800, 600>>
  /\ canvasSize = <<300, 150>>
  /\ pointCount = 0
  /\ mouse = NoMouse
  /\ errors = {}
  /\ logs = {}
  /\ params = NoParams
  /\ radius = Num(0)
  /\ entities = NoEntities
  /\ hist = NoHist
  /\ ent = NoEnt
  /\ wave = NoWave

(***************************************************************************)
(* requestAnimationFrame / cancelAnimationFrame.                           *)
(***************************************************************************)
Ids(pend) == {p.id : p \in pend}

\* handles an effect run still remembers (animationId, animationRef.current)
Remembered(st) ==
  {st.animationRef} \cup {st.closures[g].animationId : g \in DOMAIN st.closures}

\* the next handle: handles are recycled, but a new handle differs from every
\* scheduled one and from every remembered one
NextId(st) ==
  LET free == (1..MaxId) \ (Ids(st.pending) \cup Remembered(st))
  IN  IF free = {} THEN MaxId + 1 + Cardinality(st.pending)
      ELSE CHOOSE k \in free : \A j \in free : k <= j

\* requestAnimationFrame(draw): returns the state and the handle
RequestAnimationFrame(st, g) ==
  LET id == NextId(st)
  IN  [st EXCEPT !.pending = @ \cup {[id |-> id, g |-> g]}, !.handle = id]

\* a cancel that reaches no callback
CancelAnimationFrameMissed(pend, id) == pend

CancelAnimationFrame(pend, id) == {p \in pend : p.id # id}

AddListeners(st, names, g) ==
  [st EXCEPT !.listeners = @ \cup {<<n, g>> : n \in names}]

RemoveListeners(st, names, g) ==
  [st EXCEPT !.listeners = @ \ {<<n, g>> : n \in names}]

\* an uncaught exception: the running setup or handler stops here
Throw(st, what) == [st EXCEPT !.errors = @ \cup {what}, !.crashed = TRUE]

\* the closure of effect run g: what it captured, and its animationId
Capture(st, g) ==
  [st EXCEPT !.closures =
     (g :> [scroll |-> st.scrollDepth, session |-> st.sessionTime,
            animationId |-> 0]) @@ @]

SetAnimationId(st, g, id) ==
  [st EXCEPT !.closures = (g :> [st.closures[g] EXCEPT !.animationId = id]) @@ @]

\* closures nothing refers to any more are dropped
Collect(st) ==
  LET used == {l.g : l \in {x \in st.live : x.eff = "anim"}}
                \cup {p.g : p \in st.pending}
  IN  [st EXCEPT !.closures =
         [g \in (DOMAIN st.closures) \cap used |-> st.closures[g]]]

(***************************************************************************)
(* Canvas sizing: updateSize / resizeCanvas.                               *)
(***************************************************************************)
\* values of Math.random() at which acos, the azimuth and cbrt are exact
ThetaDraws == {Num(0), Q(1, 2)}

PhiDraws == {Num(0), Q(1, 4), Q(1, 2), Q(3, 4)}

RadialDraws == {Num(0), Q(1, 8), Q(27, 64)}

\* Math.acos at -1, 0 and 1, in milliradians
Acos(x) ==
  CASE x = Num(-1) -> PiMilli
    [] x = Num(0) -> PiMilli \div 2
    [] x = Num(1) -> 0

\* Math.cbrt of a ratio of perfect cubes
Cbrt(w) ==
  Q(CHOOSE k \in 0..w[1] : k * k * k = w[1],
    CHOOSE k \in 1..w[2] : k * k * k = w[2])

\* the point of the unit-less draws (u, v, w) whose z is not turned by theta
SpherePointFlat(R, u, v, w) ==
  LET theta == Acos(RSub(RMul(Num(2), u), Num(1)))
      phi   == RFloor(RMul(Num(2 * PiMilli), v))
      r     == RMul(R, Cbrt(w))
  IN  [x |-> RMul(RMul(r, Sin(theta)), Cos(phi)),
       y |-> RMul(RMul(r, Sin(theta)), Sin(phi)),
       z |-> r]

\* one iteration of the "Build points in sphere" loop
SpherePoint(R, u, v, w) ==
  LET theta == Acos(RSub(RMul(Num(2), u), Num(1)))
      phi   == RFloor(RMul(Num(2 * PiMilli), v))
      r     == RMul(R, Cbrt(w))
  IN  [x |-> RMul(RMul(r, Sin(theta)), Cos(phi)),
       y |-> RMul(RMul(r, Sin(theta)), Sin(phi)),
       z |-> RMul(r, Cos(theta))]

\* the points the loop can push for radius R
GeneratedPoints(R) ==
  {SpherePoint(R, u, v, w) :
     u \in ThetaDraws, v \in PhiDraws, w \in RadialDraws}

\* x*x + y*y + z*z
NormSq(p) == RAdd(RAdd(RMul(p.x, p.x), RMul(p.y, p.y)), RMul(p.z, p.z))

\* POINTS of the variant
PointsOf(v) == IF v = "Sphere65" THEN Sphere65Points ELSE StablePoints

\* RADIUS = Math.min(width, height) * 0.4   (0.44 in the 65%-canvas variant)
RadiusOf(v, size) ==
  RMul(Num(MinOf(size[1], size[2])),
       IF v = "Sphere65" THEN Q(44, 100) ELSE Q(4, 10))

\* the entity set built by effect run g for radius r
Built(st, g, r) == [st EXCEPT !.entities = [batch |-> g, radius |-> r]]

\* canvas.width / canvas.height after the variant's sizing function
SizedCanvas(v, win) ==
  IF v = "Sphere65"
  THEN LET size == (MinOf(win[1], win[2]) * 65) \div 100 IN <<size, size>>
  ELSE win

\* a sizing function that rebuilds the stored points on every call
UpdateSizeRebuild(v, st, now) ==
  LET s1 == [st EXCEPT !.canvasSize = SizedCanvas(v, st.window)]
  IN  CASE v = "Stable" ->
             LET s2 == [s1 EXCEPT !.radius = RadiusOf(v, s1.canvasSize)]
             IN  Built([s2 EXCEPT !.pointCount = StablePoints],
                       s2.gen, s2.radius)
        [] v = "Wave" ->
             IF s1.pointCount = 0
             THEN [s1 EXCEPT !.pointCount = GridSize * GridSize]
             ELSE s1
        [] v \in {"Tracer", "Dots"} ->
             IF env.ctx THEN s1 ELSE Throw(s1, "TypeError: ctx is null")
        [] OTHER -> s1

\* the variant's sizing function, as called at setup and on resize
UpdateSize(v, st, now) ==
  LET s1 == [st EXCEPT !.canvasSize = SizedCanvas(v, st.window)]
  IN  CASE v = "Stable" ->
             LET s2 == [s1 EXCEPT !.radius = RadiusOf(v, s1.canvasSize)]
             IN  IF s2.pointCount = 0 \/ s2.pointCount # StablePoints
                 THEN Built([s2 EXCEPT !.pointCount = StablePoints],
                            s2.gen, s2.radius)
                 ELSE s2
        [] v = "Wave" ->
             IF s1.pointCount = 0
             THEN [s1 EXCEPT !.pointCount = GridSize * GridSize]
             ELSE s1
        [] v \in {"Tracer", "Dots"} ->
             \* ctx.fillStyle = ... on the context obtained at setup
             IF env.ctx THEN s1 ELSE Throw(s1, "TypeError: ctx is null")
        [] OTHER -> s1

(***************************************************************************)
(* One frame: the body of draw / animate.                                  *)
(***************************************************************************)
\* the scrollDepth and sessionTime a frame of effect run g reads
FrameScroll(v, st, g) ==
  IF v \in RefVariants THEN st.scrollDepth ELSE st.closures[g].scroll

FrameSession(v, st, g) ==
  IF v \in RefVariants THEN st.sessionTime ELSE st.closures[g].session

StoreHandleDropped(v, st, g, id) == st

\* the frame stores the handle of the callback it scheduled
StoreHandle(v, st, g, id) ==
  IF v \in AttractorVariants
  THEN [st EXCEPT !.animationRef = id]
  ELSE SetAnimationId(st, g, id)

\* the shader program compiled and linked, so the vertex shader runs
ProgramUsable == env.vs /\ env.fs /\ env.link

FrameParamsByRun(v, st, g, now) ==
  IF v = "WebGL" /\ ~ProgramUsable
  THEN NoParams
  ELSE Params(v, FrameScroll(v, st, g), FrameSession(v, st, g),
              now + g, st.canvasSize)

\* the parameters a frame of effect run g derives
FrameParams(v, st, g, now) ==
  IF v = "WebGL" /\ ~ProgramUsable
  THEN NoParams                          \* uniforms of a null location: no-op
  ELSE Params(v, FrameScroll(v, st, g), FrameSession(v, st, g),
              now, st.canvasSize)

FrameBodyOnce(v, st, g, now) ==
  IF v \in SphereVariants /\ ~env.ctx
  THEN st
  ELSE [st EXCEPT !.params = FrameParams(v, st, g, now)]

\* a frame that also refreshes the session time it displays
FrameBodyTiming(v, st, g, now) ==
  IF v \in SphereVariants /\ ~env.ctx
  THEN st
  ELSE LET s1 == [st EXCEPT !.params = FrameParams(v, st, g, now),
                            !.sessionTime = Q(now - st.startTime, 1000)]
           s2 == RequestAnimationFrame(s1, g)
       IN  StoreHandle(v, s2, g, s2.handle)

\* draw / animate of effect run g; returns the state after the frame
FrameBody(v, st, g, now) ==
  IF v \in SphereVariants /\ ~env.ctx
  THEN st                                                \* if (!ctx) return;
  ELSE LET s1 == [st EXCEPT !.params = FrameParams(v, st, g, now)]
           s2 == RequestAnimationFrame(s1, g)
       IN  StoreHandle(v, s2, g, s2.handle)

(***************************************************************************)
(* Effect setups.                                                          *)
(***************************************************************************)
\* the scroll-listener effect of the sphere variants
ScrollSetup(v, st, g) ==
  LET s1 == AddListeners(st, {"window.scroll"}, g)
  IN  [s1 EXCEPT !.live = @ \cup {[eff |-> "scroll", g |-> g]}]

\* the initialization effect of the stable sphere and the wave field
InitSetup(v, st, g, now) ==
  IF ~env.canvas THEN st
  ELSE LET s1 == UpdateSize(v, st, now)
           s2 == AddListeners(s1, {"window.resize"}, g)
       IN  [s2 EXCEPT !.live = @ \cup {[eff |-> "init", g |-> g]}]

Returned(st, g) == [st EXCEPT !.live = @ \cup {[eff |-> "anim", g |-> g]}]

StableAnimSetup(v, st, g, now) ==
  IF ~env.canvas \/ st.pointCount = 0 THEN st
  ELSE IF ~env.ctx THEN st
  ELSE LET s1 == [Capture(st, g) EXCEPT !.mouse = NoMouse]
           s2 == AddListeners(s1, CanvasListeners, g)
           s3 == RequestAnimationFrame(s2, g)
           s4 == SetAnimationId(s3, g, s3.handle)
       IN  Returned(s4, g)

SphereAnimSetup(v, st, g, now) ==
  IF ~env.canvas THEN st
  ELSE IF ~env.ctx THEN st
  ELSE LET s0 == UpdateSize(v, st, now)
           s1 == AddListeners(s0, {"window.resize"}, g)
           r  == RadiusOf(v, s1.canvasSize)
           s2 == Built([Capture(s1, g) EXCEPT
                          !.mouse = NoMouse,
                          !.radius = r,
                          !.pointCount =
                             IF v = "Sphere65" THEN Sphere65Points
                             ELSE StablePoints], g, r)
           s3 == AddListeners(s2, CanvasListeners, g)
           s4 == RequestAnimationFrame(s3, g)
           s5 == SetAnimationId(s4, g, s4.handle)
       IN  Returned(s5, g)

\* gl.attachShader(program, null) after a failed compile: the binding
\* either rejects the null argument with a TypeError or records a GL error
AttachShaders(st) ==
  IF (~env.vs \/ ~env.fs) /\ env.attachThrows
  THEN Throw(st, "TypeError: attachShader")
  ELSE st

\* compileShader, for both shaders
CompileShaders(st) ==
  IF ~env.vs \/ ~env.fs
  THEN [st EXCEPT !.logs = @ \cup {"Shader compile error"}]
  ELSE st

WebGLAnimSetup(v, st, g, now) ==
  IF ~env.canvas THEN Throw(st, "TypeError: canvas is null")
  ELSE IF ~env.ctx
  THEN [st EXCEPT !.logs = @ \cup {"WebGL not supported"}]
  ELSE LET s0 == UpdateSize(v, st, now)
           s1 == AddListeners(s0, {"window.resize", "window.scroll"}, g)
           s2 == [s1 EXCEPT !.timers = @ \cup {g}]
           s3 == AttachShaders(CompileShaders(s2))
       IN  IF s3.crashed THEN s3
           ELSE Returned(FrameBody(v, Capture(s3, g), g, now), g)

TracerAnimSetup(v, st, g, now) ==
  IF ~env.canvas THEN st
  ELSE LET s0 == AddListeners(st, {"window.resize"}, g)
           s1 == UpdateSize(v, s0, now)
       IN  IF s1.crashed THEN s1
           ELSE LET s2 == AddListeners(s1, {"window.scroll"}, g)
                    s3 == Built([s2 EXCEPT !.timers = @ \cup {g}], g, Num(0))
                IN  Returned(FrameBody(v, Capture(s3, g), g, now), g)

CurveAnimSetup(v, st, g, now) ==
  IF ~env.canvas THEN Throw(st, "TypeError: canvas is null")
  ELSE LET s0 == UpdateSize(v, st, now)
           s1 == AddListeners(s0, {"window.resize", "window.scroll"}, g)
           s2 == Built([s1 EXCEPT !.timers = @ \cup {g}], g, Num(0))
       IN  IF ~env.ctx THEN Throw(s2, "TypeError: ctx is null")
           ELSE Returned(FrameBody(v, Capture(s2, g), g, now), g)

WaveAnimSetup(v, st, g, now) ==
  IF ~env.canvas \/ st.pointCount = 0 THEN st
  ELSE IF ~env.ctx THEN st
  ELSE LET s1 == RequestAnimationFrame(Capture(st, g), g)
           s2 == SetAnimationId(s1, g, s1.handle)
       IN  Returned(s2, g)

\* the animation effect of variant v, run as effect run g
AnimSetup(v, st, g, now) ==
  LET s0 == [st EXCEPT !.deps = <<st.scrollDepth, st.sessionTime>>]
  IN  CASE v = "Stable" -> StableAnimSetup(v, s0, g, now)
        [] v \in {"Sphere", "Sphere65"} -> SphereAnimSetup(v, s0, g, now)
        [] v = "WebGL" -> WebGLAnimSetup(v, s0, g, now)
        [] v \in {"Tracer", "Dots"} -> TracerAnimSetup(v, s0, g, now)
        [] v = "Curve" -> CurveAnimSetup(v, s0, g, now)
        [] OTHER -> WaveAnimSetup(v, s0, g, now)

(***************************************************************************)
(* Effect cleanups.                                                        *)
(***************************************************************************)
Dropped(st, eff, g) ==
  [st EXCEPT !.live = @ \ {[eff |-> eff, g |-> g]}]

ScrollCleanup(v, st, g) ==
  Dropped(RemoveListeners(st, {"window.scroll"}, g), "scroll", g)

InitCleanup(v, st, g) ==
  Dropped(RemoveListeners(st, {"window.resize"}, g), "init", g)

\* the handle the cleanup of effect run g passes to cancelAnimationFrame
CleanupHandle(v, st, g) ==
  IF v \in AttractorVariants THEN st.animationRef
  ELSE st.closures[g].animationId

\* the listeners the cleanup of the animation effect removes
CleanupListeners(v) ==
  CASE v = "Stable" -> CanvasListeners
    [] v \in {"Sphere", "Sphere65"} -> CanvasListeners \cup {"window.resize"}
    [] v \in AttractorVariants -> {"window.resize", "window.scroll"}
    [] OTHER -> {}

\* the timers the cleanup of the animation effect clears
CleanupTimers(v, g) == IF v \in AttractorVariants THEN {g} ELSE {}

AnimCleanup(v, st, g) ==
  LET s1 == RemoveListeners(st, CleanupListeners(v), g)
      s2 == [s1 EXCEPT !.timers = @ \ CleanupTimers(v, g)]
      \* attractor variants: if (animationRef.current) cancel...
      s3 == [s2 EXCEPT !.pending =
               CancelAnimationFrame(@, CleanupHandle(v, st, g))]
      s4 == [s3 EXCEPT !.hist.tornDown = @ \cup {g}]
  IN  Dropped(s4, "anim", g)

(***************************************************************************)
(* Actions.                                                                *)
(***************************************************************************)
\* the cleanup of effect eff, if its setup returned one
CleanupOf(v, st, eff) ==
  IF \E l \in st.live : l.eff = eff
  THEN LET l == CHOOSE x \in st.live : x.eff = eff
       IN  CASE eff = "scroll" -> ScrollCleanup(v, st, l.g)
             [] eff = "init"   -> InitCleanup(v, st, l.g)
             [] OTHER          -> AnimCleanup(v, st, l.g)
  ELSE st

\* a new component instance: fresh state and refs, effects run in order
Mount ==
  /\ phase \in {"init", "unmounted"}
  /\ gen < MaxGen
  /\ LET v  == env.variant
         g  == gen + 1
         s0 == [Cur EXCEPT !.gen = g,
                           !.scrollDepth = Num(0),
                           !.sessionTime = Num(0),
                           !.startTime = Now,
                           !.animationRef = 0,
                           !.mouse = NoMouse,
                           !.pointCount = IF v = "Stable" THEN @ ELSE 0,
                           !.radius = IF v = "Stable" THEN @ ELSE Num(0),
                           !.entities =
                              IF v = "Stable" THEN @ ELSE NoEntities]
         s1 == IF v \in SphereVariants THEN ScrollSetup(v, s0, g) ELSE s0
         s2 == IF v \in {"Stable", "Wave"} THEN InitSetup(v, s1, g, Now)
               ELSE s1
         s3 == AnimSetup(v, s2, g, Now)
     IN  Install(Collect([s3 EXCEPT !.phase =
                            IF s3.crashed THEN "crashed" ELSE "mounted"]))

\* the component is removed: every registered cleanup runs
Unmount ==
  /\ phase \in {"mounted", "crashed"}
  /\ LET v  == env.variant
         s1 == CleanupOf(v, Cur, "scroll")
         s2 == CleanupOf(v, s1, "init")
         s3 == CleanupOf(v, s2, "anim")
     IN  Install(Collect([s3 EXCEPT !.phase = "unmounted"]))

\* the dependencies of the animation effect differ from its last run
DepsChanged ==
  \/ deps[1] # scrollDepth
  \/ env.variant \in SessionDepVariants /\ deps[2] # sessionTime

\* React commits a re-render: the animation effect is cleaned up and re-run
Rerender ==
  /\ phase = "mounted"
  /\ env.variant \in StateVariants
  /\ DepsChanged
  /\ gen < MaxGen
  /\ LET v  == env.variant
         g  == gen + 1
         s1 == CleanupOf(v, Cur, "anim")
         s2 == AnimSetup(v, [s1 EXCEPT !.gen = g], g, Now)
     IN  Install(Collect([s2 EXCEPT !.phase =
                            IF s2.crashed THEN "crashed" ELSE "mounted"]))

\* the display runs one scheduled frame callback
Frame ==
  \E p \in pending :
    LET v  == env.variant
        s0 == [Cur EXCEPT !.pending = @ \ {p}]
        s1 == FrameBody(v, s0, p.g, Now)
        s2 == [s1 EXCEPT
                 !.hist.lateFrame = @ \/ (p.g \in hist.tornDown),
                 !.hist.sched = Cardinality(s1.pending \ s0.pending)]
    IN  Install(Collect(s2))

\* a scroll event: every registered handleScroll runs
HandleScroll ==
  /\ \E l \in listeners : l[1] = "window.scroll"
  /\ \E height \in 0..MaxScroll : \E winScroll \in 0..height :
       Install([Cur EXCEPT !.scrollDepth =
                  IF phase = "mounted" THEN ScrollRatio(winScroll, height)
                  ELSE @])

\* the session interval fires
SessionTick ==
  /\ timers # {}
  /\ Install([Cur EXCEPT !.sessionTime =
                IF phase = "mounted" THEN Q(Now - startTime, 1000) ELSE @])

\* the window is resized: every registered resize handler runs
ResizeTo(sizes) ==
  /\ \E l \in listeners : l[1] = "window.resize"
  /\ \E size \in sizes \ {window} :
       Install(UpdateSize(env.variant, [Cur EXCEPT !.window = size], Now))

HandleResize == ResizeTo(Sizes)

\* the window is moved between a small display and a 4K one
HandleResizeWide == ResizeTo(Viewports)

\* the window shrinks to a phone's viewport
HandleResizeNarrow ==
  /\ \E l \in listeners : l[1] = "window.resize"
  /\ \E size \in Handsets \ {window} :
       Install(UpdateSize(env.variant, [Cur EXCEPT !.window = size], Now))

\* isDragging and mouse.active after a pointer or touch event
PointerState(kind, m) ==
  CASE kind \in {"canvas.mousemove", "canvas.touchmove"} ->
         [m EXCEPT !.active = TRUE]
    [] kind = "canvas.mousedown" -> [m EXCEPT !.dragging = TRUE]
    [] kind = "canvas.mouseup" -> [m EXCEPT !.dragging = FALSE]
    [] kind = "canvas.touchstart" -> [active |-> TRUE, dragging |-> TRUE]
    [] OTHER -> [active |-> FALSE, dragging |-> FALSE]

\* a mouse or touch event on the canvas
Pointer ==
  \E l \in listeners :
    /\ l[1] \in CanvasListeners
    /\ Install([Cur EXCEPT !.mouse = PointerState(l[1], @)])

\* time passes (Date.now() is read by the attractor variants only)
ClockAdvance ==
  /\ env.variant \in AttractorVariants
  /\ phase = "mounted"
  /\ clock < MaxClock
  /\ Install([Cur EXCEPT !.clock = @ + 1])

Next ==
  \/ Mount
  \/ Unmount
  \/ Rerender
  \/ Frame
  \/ HandleScroll
  \/ SessionTick
  \/ HandleResize
  \/ Pointer
  \/ ClockAdvance

Spec == Init /\ [][Next]_vars

\* the point clouds alone, resized between displays of different height
SphereInit == Init /\ env.variant \in SphereVariants

SphereNext ==
  \/ Mount
  \/ Unmount
  \/ Rerender
  \/ Frame
  \/ HandleScroll
  \/ HandleResizeWide
  \/ HandleResizeNarrow
  \/ Pointer

SphereSpec == SphereInit /\ [][SphereNext]_vars

TypeOK ==
  /\ phase \in {"init", "mounted", "crashed", "unmounted"}
  /\ gen \in 0..MaxGen

(***************************************************************************)
(* The entities: projection and rotation of the point clouds.  Lengths are *)
(* carried in hundredths of a pixel and angles in microradians.            *)
(***************************************************************************)
\* PERSPECTIVE_DEPTH / depth
CameraDepth(v) == IF v = "Stable" THEN 2000 ELSE 500

\* baseRotY = 0.002
BaseRotY == 2000

\* Math.PI / 3
MaxTilt == (PiMilli * 1000) \div 3

\* wave * 6 * pulse at its extremes and at rest
AmpDraws == {Num(-6), Num(6)}

\* rotation angles project is called with outside a frame
RotDraws == {0, BaseRotY, MaxTilt}

\* pointer positions relative to the canvas centre, pointer travel per event
MouseOffsets == {<<0, -150>>, <<90, 120>>}

DragDeltas == {<<0, 600>>, <<300, -600>>}

Centi(x) == RFloor(RMul(x, Num(100)))

\* Math.sqrt, rounded down
ISqrt(n) == CHOOSE k \in 0..n : k * k <= n /\ (k + 1) * (k + 1) > n

\* x *= 0.96
Damp(x) == Sign(x) * ((Abs(x) * 96) \div 100)

Clamp(x, lo, hi) == IF x > hi THEN hi ELSE IF x < lo THEN lo ELSE x

\* the two axis rotations of project, about Y and then about X
Rotate(p, rotY, rotX) ==
  LET cosY == CosMilli(rotY \div 1000)
      sinY == SinMilli(rotY \div 1000)
      cosX == CosMilli(rotX \div 1000)
      sinX == SinMilli(rotX \div 1000)
      x    == (Centi(p.x) * cosY + Centi(p.z) * sinY) \div 1000
      z    == (Centi(p.z) * cosY - Centi(p.x) * sinY) \div 1000
      y    == Centi(p.y)
  IN  [x |-> x,
       y2 |-> (y * cosX - z * sinX) \div 1000,
       z2 |-> (z * cosX + y * sinX) \div 1000]

\* x * scale for x in hundredths, (den / 100) = depth + z2
Scaled(x, D, den) ==
  IF den = 0 THEN (IF x = 0 THEN NaN ELSE Q(x, 0)) ELSE Q(x * D, den)

\* width / 2 + x * scale
Screen(half, xs) == IF IsFinite(xs) THEN RAdd(half, xs) ELSE xs

\* a projection that centres both axes on width / 2
ProjectSquare(v, p, rotY, rotX, size) ==
  LET r   == Rotate(p, rotY, rotX)
      D   == CameraDepth(v)
      den == 100 * D + r.z2
  IN  [px |-> Screen(Q(size[1], 2), Scaled(r.x, D, den)),
       py |-> Screen(Q(size[1], 2), Scaled(r.y2, D, den)),
       scale |-> Q(100 * D, den),
       z |-> Q(r.z2, 100)]

Project(v, p, rotY, rotX, size) ==
  LET r   == Rotate(p, rotY, rotX)
      D   == CameraDepth(v)
      den == 100 * D + r.z2
  IN  [px |-> Screen(Q(size[1], 2), Scaled(r.x, D, den)),
       py |-> Screen(Q(size[2], 2), Scaled(r.y2, D, den)),
       scale |-> Q(100 * D, den),
       z |-> Q(r.z2, 100)]

\* the points followed through a frame: the deepest one and one on the rim
DrawnPoints(R) ==
  {SpherePoint(R, u, Num(0), Q(27, 64)) : u \in ThetaDraws}

\* the record of one call of project
Called(by, p, rotY, rotX, pr) ==
  [by |-> by, p |-> p, rotY |-> rotY, rotX |-> rotX,
   px |-> pr.px, py |-> pr.py, scale |-> pr.scale, z |-> pr.z]

\* proximity = Math.max(0, 1 - d / (Math.min(width, height) / 2))
Proximity(m, size) ==
  LET dx2 == 2 * m.x - size[1]
      dy2 == 2 * m.y - size[2]
      sq  == dx2 * dx2 + dy2 * dy2
      min == MinOf(size[1], size[2])
  IN  IF sq >= min * min THEN Num(0) ELSE Q(min - ISqrt(sq), min)

\* d * 0.000001 * proximity for d = mouse - centre given as twice its value
Torque(d2, prox) == RTrunc(RMul(Q(d2, 2), prox))

\* the head of draw: rotation update, damping, clamp and pointer torque
\* the dimensions a frame centres the pointer on: the stable sphere reads
\* canvas.width / canvas.height in each frame, the others use the captured ones
Seen(e) == IF env.variant = "Stable" THEN e.canvas ELSE e.size

Turned(e) ==
  LET rotY1 == e.rotY + BaseRotY + e.velocityY
      rotX1 == Clamp(e.rotX + e.velocityX, -MaxTilt, MaxTilt)
      prox  == Proximity(e.mouse, Seen(e))
  IN  [e EXCEPT
         !.velocityX = Damp(e.velocityX),
         !.velocityY = Damp(e.velocityY),
         !.rotY = IF e.mouse.active
                  THEN rotY1 + Torque(2 * e.mouse.x - Seen(e)[1], prox)
                  ELSE rotY1,
         !.rotX = IF e.mouse.active
                  THEN rotX1 - Torque(2 * e.mouse.y - Seen(e)[2], prox)
                  ELSE rotX1]

\* one frame of draw, followed through the point p displaced by amp
DrawFrame(v, e, p, amp) ==
  LET e1 == Turned(e)
      q  == [p EXCEPT !.z = RAdd(p.z, amp)]
  IN  [e1 EXCEPT
         !.t = @ + 1,
         !.call = Called("draw", q, e1.rotY, e1.rotX,
                         Project(v, q, e1.rotY, e1.rotX, e.size))]

\* the animation effect builds its points and zeroes its locals
BuildPoints ==
  /\ ~ent.made
  /\ env.variant \in SphereVariants
  /\ env.canvas /\ env.ctx
  /\ \E vp \in Viewports :
       LET size == SizedCanvas(env.variant, vp)
       IN  ent' = [NoEnt EXCEPT !.made = TRUE, !.size = size,
                                !.canvas = size,
                                !.R = RadiusOf(env.variant, size)]
  /\ UNCHANGED <<hostVars, wave>>

\* the effect's locals exist and its frames are running
Animating ==
  /\ ent.made
  /\ env.variant \in SphereVariants
  /\ ent.call.by # "test"

HandleMouseDown ==
  /\ Animating
  /\ ~ent.isDragging
  /\ ent' = [ent EXCEPT !.isDragging = TRUE, !.held = TRUE]
  /\ UNCHANGED <<hostVars, wave>>

HandleMouseMove ==
  /\ Animating
  /\ \E o \in MouseOffsets, d \in DragDeltas :
       ent' = [ent EXCEPT
                 !.mouse = [x |-> ent.size[1] \div 2 + o[1],
                            y |-> ent.size[2] \div 2 + o[2],
                            active |-> TRUE],
                 !.velocityY = IF ent.isDragging THEN -d[1] * 2000 ELSE @,
                 !.velocityX = IF ent.isDragging THEN d[2] * 2000 ELSE @]
  /\ UNCHANGED <<hostVars, wave>>

HandleMouseLeave ==
  /\ Animating
  /\ ent.isDragging \/ ent.mouse.active
  /\ ent' = [ent EXCEPT !.isDragging = FALSE, !.mouse.active = FALSE,
                         !.held = FALSE]
  /\ UNCHANGED <<hostVars, wave>>

HandleMouseUp ==
  /\ Animating
  /\ ent.isDragging
  /\ ent' = [ent EXCEPT !.isDragging = FALSE, !.held = FALSE]
  /\ UNCHANGED <<hostVars, wave>>

\* the pointer position a touch at offset o from the canvas centre stores
TouchAt(e, o) ==
  [x |-> e.size[1] \div 2 + o[1], y |-> e.size[2] \div 2 + o[2],
   active |-> TRUE]

HandleTouchStart ==
  /\ Animating
  /\ ~ent.isDragging
  /\ \E o \in MouseOffsets :
       ent' = [ent EXCEPT !.isDragging = TRUE, !.mouse = TouchAt(ent, o),
                          !.held = TRUE]
  /\ UNCHANGED <<hostVars, wave>>

\* a touch move that sets the drag velocity whether or not a drag is on
TouchMoveUnheld(e, o, d) ==
  [e EXCEPT !.mouse = TouchAt(e, o),
            !.velocityY = -d[1] * 2000,
            !.velocityX = d[2] * 2000]

\* the body of handleTouchMove for a touch at offset o that moved by d
TouchMove(e, o, d) ==
  [e EXCEPT !.mouse = TouchAt(e, o),
            !.velocityY = IF e.isDragging THEN -d[1] * 2000 ELSE @,
            !.velocityX = IF e.isDragging THEN d[2] * 2000 ELSE @]

HandleTouchMove ==
  /\ Animating
  /\ \E o \in MouseOffsets, d \in DragDeltas :
       ent' = TouchMove(ent, o, d)
  /\ UNCHANGED <<hostVars, wave>>

\* handleTouchEnd, registered for touchend and touchcancel
HandleTouchEnd ==
  /\ Animating
  /\ ent.isDragging \/ ent.mouse.active
  /\ ent' = [ent EXCEPT !.isDragging = FALSE, !.mouse.active = FALSE,
                         !.held = FALSE]
  /\ UNCHANGED <<hostVars, wave>>

Draw ==
  /\ Animating
  /\ ent.t < MaxFrames
  /\ \E p \in DrawnPoints(ent.R), amp \in AmpDraws :
       ent' = DrawFrame(env.variant, ent, p, amp)
  /\ UNCHANGED <<hostVars, wave>>

\* a window resize while the effect is running: updateSize resizes the canvas
UpdateCanvas ==
  /\ Animating
  /\ \E vp \in Viewports :
       LET size == SizedCanvas(env.variant, vp)
       IN  /\ size # ent.canvas
           /\ ent' = [ent EXCEPT !.canvas = size]
  /\ UNCHANGED <<hostVars, wave>>

\* project called on its own, before the first frame
ProjectAt ==
  /\ ent.made
  /\ env.variant \in SphereVariants
  /\ ent = [NoEnt EXCEPT !.made = TRUE, !.size = ent.size, !.R = ent.R,
                         !.canvas = ent.canvas]
  /\ \E p \in GeneratedPoints(ent.R), amp \in AmpDraws,
        rotY \in RotDraws, rotX \in RotDraws :
       LET q == [p EXCEPT !.z = RAdd(p.z, amp)]
       IN  ent' = [ent EXCEPT
                     !.call = Called("test", q, rotY, rotX,
                                     Project(env.variant, q, rotY, rotX,
                                             ent.size))]
  /\ UNCHANGED <<hostVars, wave>>

(***************************************************************************)
(* The entities: PathTracer and AttractorCurve.  Positions are carried in  *)
(* thousandths.                                                            *)
(***************************************************************************)
\* (index / total) * Math.PI * 2 of the tracers followed
PhaseDraws == {0, PiMilli \div 2, PiMilli, (3 * PiMilli) \div 2}

\* now - lastTimeRef.current: a regular frame, slow frames, a stalled page
DeltasOf(v) ==
  LET k == IF v = "Dots" THEN 1 ELSE 4
  IN  {17 * k, 250 * k, 320 * k, 500 * k}

\* speedFactor = k * (deltaTime / 16.666) / substeps
StepFraction(v, deltaTime) ==
  RDiv(RMul(IF v = "Dots" THEN Q(3, 10) ELSE Q(8, 100),
            RDiv(Num(deltaTime), Q(16666, 1000))),
       Num(5))

\* newX = sin(a * y) - cos(b * x), newY = sin(c * x) - cos(d * y)
Kernel(co, pos) ==
  [x |-> SinMilli(RFloor(RMul(co.a, Num(pos.y))))
           - CosMilli(RFloor(RMul(co.b, Num(pos.x)))),
   y |-> SinMilli(RFloor(RMul(co.c, Num(pos.x))))
           - CosMilli(RFloor(RMul(co.d, Num(pos.y))))]

\* one pass of the substep loop of PathTracer.update
Substep(co, pos, speedFactor) ==
  LET new == Kernel(co, pos)
  IN  [x |-> pos.x + RTrunc(RMul(Num(new.x - pos.x), speedFactor)),
       y |-> pos.y + RTrunc(RMul(Num(new.y - pos.y), speedFactor))]

RECURSIVE Substeps(_, _, _, _)
Substeps(co, pos, speedFactor, n) ==
  IF n = 0 THEN pos
  ELSE Substeps(co, Substep(co, pos, speedFactor), speedFactor, n - 1)

\* PathTracer.update(a, b, c, d, deltaTime)
Update(v, co, pos, deltaTime) ==
  Substeps(co, pos, StepFraction(v, deltaTime), 5)

\* |dx| + |dy|
Distance(p, q) == Abs(p.x - q.x) + Abs(p.y - q.y)

\* the position of the entity
Pos(e) == [x |-> e.x, y |-> e.y]

\* a, b, c, d of the frame about to run
FrameCoefficients ==
  Coefficients(env.variant, scrollDepth, sessionTime, Now)

\* new PathTracer(index, total)
NewPathTracer ==
  /\ ~ent.made
  /\ env.variant \in RefVariants
  /\ env.canvas /\ env.ctx
  /\ \E ph \in PhaseDraws :
       LET k == IF env.variant = "Dots" THEN 2 ELSE 10
       IN  ent' = [NoEnt EXCEPT !.made = TRUE,
                                !.x = CosMilli(ph) \div k,
                                !.y = SinMilli(ph) \div k]
  /\ UNCHANGED <<hostVars, wave>>

\* new AttractorCurve()
NewAttractorCurve ==
  /\ ~ent.made
  /\ env.variant = "Curve"
  /\ env.canvas /\ env.ctx
  /\ ent' = [NoEnt EXCEPT !.made = TRUE, !.x = 100, !.y = 100]
  /\ UNCHANGED <<hostVars, wave>>

\* a frame of the tracer variants: tracer.update(a, b, c, d, deltaTime)
Animate ==
  /\ ent.made
  /\ env.variant \in RefVariants
  /\ ent.t < MaxFrames
  /\ \E deltaTime \in DeltasOf(env.variant) :
       LET pos == Update(env.variant, FrameCoefficients, Pos(ent), deltaTime)
       IN  ent' = [ent EXCEPT !.x = pos.x, !.y = pos.y, !.t = @ + 1]
  /\ UNCHANGED <<hostVars, wave>>

\* a trail that refuses the new point once it is full
PushedKeepingOldest(points, pos) ==
  IF Len(points) >= MaxPoints THEN points ELSE Append(points, pos)

\* this.points.push(...); if (this.points.length > this.maxPoints) shift()
Pushed(points, pos) ==
  LET q == Append(points, pos)
  IN  IF Len(q) > MaxPoints THEN Tail(q) ELSE q

\* a frame of the curve variant: curve.update(a, b, c, d)
CurveAnimate ==
  /\ ent.made
  /\ env.variant = "Curve"
  /\ ent.t < MaxFrames + 2
  /\ LET pos == Kernel(FrameCoefficients, Pos(ent))
     IN  ent' = [ent EXCEPT !.x = pos.x, !.y = pos.y, !.t = @ + 1,
                            !.points = Pushed(@, pos),
                            !.visited = Append(@, pos)]
  /\ UNCHANGED <<hostVars, wave>>

EntNext ==
  \/ BuildPoints
  \/ HandleMouseDown
  \/ HandleMouseMove
  \/ HandleMouseLeave
  \/ HandleMouseUp
  \/ HandleTouchStart
  \/ HandleTouchMove
  \/ HandleTouchEnd
  \/ Draw
  \/ ProjectAt
  \/ NewPathTracer
  \/ NewAttractorCurve
  \/ Animate
  \/ CurveAnimate

EntitySpec == Init /\ [][EntNext]_vars

\* the sphere's frames under window resizes
ResizeNext ==
  \/ BuildPoints
  \/ UpdateCanvas
  \/ HandleMouseMove
  \/ Draw

ResizeSpec == Init /\ [][ResizeNext]_vars

(***************************************************************************)
(* The wave field: sliders, labels and the colour of a grid point.         *)
(***************************************************************************)
\* slider positions (min and max of each range input)
FrequencyDraws == {Q(1, 2), Num(10)}

AmplitudeDraws == {Num(5), Num(100)}

\* grid points followed through a frame: a corner and the centre
GridDraws == {<<0, GridSize - 1>>, <<GridSize \div 2, GridSize \div 2>>}

\* x as an angle in milliradians
Milli(x) == RFloor(RMul(x, Num(1000)))

\* the body of the grid loop of draw for grid point p at frame time t
WavePoint(by, p, t, freq, amp, size) ==
  LET cell  == RMul(Q(MinOf(size[1], size[2]), GridSize), Q(8, 10))
      dX    == RMul(Num(p[1] - GridSize \div 2), cell)
      dY    == RMul(Num(p[2] - GridSize \div 2), cell)
      wave1 == SinMilli(Milli(RAdd(RMul(RMul(dX, Q(5, 100)), freq),
                                   Q(5 * t, 100))))
      wave2 == CosMilli(Milli(RAdd(RMul(RMul(dY, Q(5, 100)), freq),
                                   Q(3 * t, 100))))
      wave3 == SinMilli(Milli(RAdd(RMul(RMul(RAdd(dX, dY), Q(2, 100)), freq),
                                   Q(7 * t, 100))))
      z     == RMul(Q(wave1 + wave2 + wave3, 1000), amp)
  IN  [by |-> by, p |-> p, freq |-> freq, amp |-> amp, z |-> z,
       colorFactor |-> RDiv(RAdd(z, amp), RMul(amp, Num(2)))]

\* an instance mounts: useState(dynamicWavePropsRef.frequency / .amplitude)
WaveMount ==
  \E i \in Instances :
    /\ ~wave.label[i].mounted
    /\ wave' = [wave EXCEPT
                  !.label[i] = [mounted |-> TRUE,
                                frequency |-> wave.ref.frequency,
                                amplitude |-> wave.ref.amplitude],
                  !.t[i] = 0]
    /\ UNCHANGED <<hostVars, ent>>

WaveUnmount ==
  \E i \in Instances :
    /\ wave.label[i].mounted
    /\ wave' = [wave EXCEPT !.label[i] = NoWave.label[i], !.t[i] = 0]
    /\ UNCHANGED <<hostVars, ent>>

HandleFrequencyChange ==
  \E i \in Instances, newFreq \in FrequencyDraws :
    /\ wave.label[i].mounted
    /\ wave' = [wave EXCEPT !.label[i].frequency = newFreq,
                            !.ref.frequency = newFreq]
    /\ UNCHANGED <<hostVars, ent>>

HandleAmplitudeChange ==
  \E i \in Instances, newAmp \in AmplitudeDraws :
    /\ wave.label[i].mounted
    /\ wave' = [wave EXCEPT !.label[i].amplitude = newAmp,
                            !.ref.amplitude = newAmp]
    /\ UNCHANGED <<hostVars, ent>>

\* a frame of instance i, followed through one grid point
WaveDraw ==
  \E i \in Instances, p \in GridDraws :
    /\ wave.label[i].mounted
    /\ wave.t[i] < MaxFrames
    /\ wave' = [wave EXCEPT
                  !.drawn = WavePoint(i, p, wave.t[i], wave.ref.frequency,
                                      wave.ref.amplitude, window),
                  !.t[i] = @ + 1]
    /\ UNCHANGED <<hostVars, ent>>

WaveInit == Init /\ env.variant = "Wave" /\ env.canvas /\ env.ctx

WaveNext ==
  \/ WaveMount
  \/ WaveUnmount
  \/ HandleFrequencyChange
  \/ HandleAmplitudeChange
  \/ WaveDraw

WaveSpec == WaveInit /\ [][WaveNext]_vars

(***************************************************************************)
(* Properties.                                                             *)
(***************************************************************************)
\* the animation effect of the mounted component is set up and not torn down
Running == phase = "mounted" /\ \E l \in live : l.eff = "anim"

\* scrollDepth values 0, 1/GridSteps, .., 1 in increasing order
GridPoint(k) == Q(k, GridSteps)

ScrollGrid == {GridPoint(k) : k \in 0..GridSteps}

\* sessionTime values from 0 to beyond both saturation points, in seconds
SessionGrid == {Num(30 * k) : k \in 0..(GridSteps + 1)}

\* C1: once the cleanup of an effect run has executed, no frame callback of
\* that run executes again and none is left scheduled, whatever events
\* preceded the cleanup.
C1_NoFrameAfterTeardown ==
  /\ ~hist.lateFrame
  /\ \A p \in pending : p.g \notin hist.tornDown

\* C1 witness: a loop that executed frame callbacks has been torn down
C1_Witness ==
  /\ hist.tornDown # {}
  /\ hist.sched = 1
  /\ phase = "unmounted"

\* C2: after teardown no listener or timer registered by the mount remains,
\* and while mounted every listener and timer belongs to an effect run whose
\* cleanup is still registered.
C2_NothingLeftBehind ==
  /\ phase = "unmounted" => listeners = {} /\ timers = {}
  /\ phase = "mounted" =>
       /\ \A l \in listeners : \E e \in live : e.g = l[2]
       /\ \A t \in timers : \E e \in live : e.g = t

\* C3: while the loop is running, every executed frame callback has scheduled
\* exactly one next callback, so exactly one callback of the running loop is
\* pending at any time and the display always has a frame to run.
C3_FrameReschedules ==
  /\ hist.sched \in {-1, 1}
  /\ Running =>
       \E l \in live :
         /\ l.eff = "anim"
         /\ Cardinality({p \in pending : p.g = l.g}) = 1

\* C3 witness: a frame callback has executed and the loop is still running
C3_Witness == Running /\ hist.sched = 1 /\ pending # {}

\* C4: when the canvas or its drawing context is unavailable, setup raises no
\* error, leaves nothing registered behind, and no frame is ever scheduled.
C4_MissingSurfaceIsSilent ==
  (~env.canvas \/ ~env.ctx) =>
    /\ errors = {}
    /\ pending = {}
    /\ hist.sched = -1
    /\ params = NoParams
    /\ phase \in {"crashed", "unmounted"} => listeners = {} /\ timers = {}

\* C5: in the WebGL variant a shader compile or program link failure is
\* logged, raises no error, and the render loop still starts.
C5_ShaderFailureTolerated ==
  (/\ env.variant = "WebGL"
   /\ env.canvas /\ env.ctx
   /\ ~ProgramUsable
   /\ phase \in {"mounted", "crashed"}) =>
    /\ logs # {}
    /\ errors = {}
    /\ phase = "mounted"
    /\ pending # {}

\* C6: the stored scrollDepth is never NaN and lies in [0, 1], and a scroll
\* event over content that is not scrollable stores exactly 0.
C6_ScrollDepthRange ==
  /\ IsFinite(scrollDepth)
  /\ RLe(Num(0), scrollDepth)
  /\ RLe(scrollDepth, Num(1))
  /\ \A g \in DOMAIN closures :
       /\ IsFinite(closures[g].scroll)
       /\ RLe(Num(0), closures[g].scroll)
       /\ RLe(closures[g].scroll, Num(1))
  /\ \A w \in 0..MaxScroll : \A h \in (-MaxScroll)..0 :
       ScrollRatio(w, h) = Num(0)

\* C6 witness: a scroll event stored the bottom of a scrollable page
C6_Witness == phase = "mounted" /\ scrollDepth = Num(1)

\* C7: the symmetry count a frame computes is an integer in 3..12 (so at
\* least 1), for the inputs of every frame and, per variant, for every
\* scrollDepth in [0, 1] and sessionTime >= 0 of the grids.
C7_SymmetryRange ==
  /\ params.variant \in SymmetryVariants =>
       params.symmetry \in Int /\ params.symmetry \in 3..12
  /\ (phase = "init" /\ env.variant \in SymmetryVariants) =>
       \A s \in ScrollGrid : \A t \in SessionGrid :
         Symmetry(env.variant, s, t) \in 3..12

\* C7 witness: a frame of the tracer variant computed its largest count
C7_Witness ==
  /\ params.variant = "Tracer"
  /\ params.scroll = Num(1)
  /\ RLe(Num(60), params.session)
  /\ params.symmetry = 8

\* the parameters the last frame would have derived at grid point k of
\* scrollDepth, its sessionTime, clock and canvas held fixed
FieldAt(f, k) ==
  Derive(params.variant, f, GridPoint(k),
         IF "session" \in DOMAIN params THEN params.session ELSE Num(0),
         IF "now" \in DOMAIN params THEN params.now ELSE 0,
         canvasSize)

\* C8: with sessionTime, clock and canvas held fixed, hue, symmetry count and
\* scale are each monotonic in scrollDepth over [0, 1].
C8_MonotonicInScroll ==
  /\ params.variant \in HueVariants =>
       \/ \A k \in 1..GridSteps :
            RLe(FieldAt("hue", k - 1), FieldAt("hue", k))
       \/ \A k \in 1..GridSteps :
            RLe(FieldAt("hue", k), FieldAt("hue", k - 1))
  /\ params.variant \in SymmetryVariants =>
       \A k \in 1..GridSteps :
         FieldAt("symmetry", k - 1) <= FieldAt("symmetry", k)
  /\ params.variant \in ScaleVariants =>
       \A k \in 1..GridSteps :
         RLe(FieldAt("scale", k - 1), FieldAt("scale", k))

\* C8 witness: a frame derived its hue from a scrollDepth above 0
C8_Witness ==
  /\ params.variant \in HueVariants
  /\ params.variant \in SymmetryVariants
  /\ RLt(Num(0), params.scroll)
  /\ params.hue = Hue(params.variant, params.scroll, params.now)

\* the variants whose base constants are a=1.4, b=-2.3, c=2.4, d=-2.1
BaseVariants == {"WebGL", "Curve"}

\* base + the largest offset of each coefficient
BasePlusMax(v) ==
  [a |-> RAdd(Base(v).a, ScrollInfluence(v, Num(1))),
   b |-> RAdd(Base(v).b, SessionB(v, Num(SaturationSeconds(v)))),
   c |-> RSub(Base(v).c, ScrollC(v, Num(1))),
   d |-> Base(v).d]

\* C9 as stated: at scrollDepth 0 / sessionTime 0 a frame computes exactly
\* the base constants, and at scrollDepth 1 / sessionTime 60 exactly base
\* plus the maximum offsets.
C9_Original ==
  params.variant \in BaseVariants =>
    /\ (params.scroll = Num(0) /\ params.session = Num(0)) =>
         params.coef = Base(params.variant)
    /\ (params.scroll = Num(1) /\ params.session = Num(60)) =>
         params.coef = BasePlusMax(params.variant)

Within(x, centre, tol) ==
  /\ RLe(RSub(centre, tol), x)
  /\ RLe(x, RAdd(centre, tol))

\* C9 amended: at scrollDepth 0 / sessionTime 0, b = -2.3 and c = 2.4
\* exactly while a and d are within the clock drift of their bases
\* (|a - 1.4| <= 0.05, |d + 2.1| <= 0.08); at scrollDepth 1 / sessionTime 60,
\* |a - 1.6| <= 0.05 and |d + 2.1| <= 0.08, and (b, c) is (-2.2, 2.25) in the
\* shader variant and (-2.25, 2.36) in the curve variant, whose session
\* offset reaches its maximum only at sessionTime 120.
C9_CoefficientsAtEndpoints ==
  params.variant \in BaseVariants =>
    /\ Within(params.coef.d, Q(-21, 10), Q(8, 100))
    /\ (params.scroll = Num(0) /\ params.session = Num(0)) =>
         /\ params.coef.b = Q(-23, 10)
         /\ params.coef.c = Q(24, 10)
         /\ Within(params.coef.a, Q(14, 10), Q(5, 100))
    /\ (params.scroll = Num(1) /\ params.session = Num(60)) =>
         /\ Within(params.coef.a, Q(16, 10), Q(5, 100))
         /\ params.variant = "WebGL" =>
              params.coef.b = Q(-22, 10) /\ params.coef.c = Q(225, 100)
         /\ params.variant = "Curve" =>
              params.coef.b = Q(-225, 100) /\ params.coef.c = Q(236, 100)

\* C9 witness: a curve frame ran at scrollDepth 1 and sessionTime 60
C9_Witness ==
  /\ params.variant = "Curve"
  /\ params.scroll = Num(1)
  /\ params.session = Num(60)

\* C10 as stated: for sessionTime >= 60 the coefficients and the symmetry
\* count of a frame equal those at sessionTime = 60, in every variant.
C10_Original ==
  (params.variant \in AttractorVariants /\ RLe(Num(60), params.session)) =>
    /\ params.coef =
         Coefficients(params.variant, params.scroll, Num(60), params.now)
    /\ params.variant \in SymmetryVariants =>
         params.symmetry = Symmetry(params.variant, params.scroll, Num(60))

\* the sessionTime at which the engagement measure is 1
Saturation(v) == IF v = "Curve" THEN Num(120) ELSE Num(60)

\* C10 amended: the engagement measure is min(sessionTime/60, 1) in the
\* shader and tracer variants and min(sessionTime/120, 1) in the curve
\* variant: from that sessionTime on the coefficients and symmetry count
\* equal those at it (b = base + 0.1), and below it b = base + 0.1 * measure.
C10_EngagementSaturates ==
  /\ params.variant \in AttractorVariants =>
       LET v   == params.variant
           sat == Saturation(v)
       IN  /\ RLe(sat, params.session) =>
                /\ params.coef =
                     Coefficients(v, params.scroll, sat, params.now)
                /\ params.coef.b = RAdd(Base(v).b, Q(1, 10))
                /\ v \in SymmetryVariants =>
                     params.symmetry = Symmetry(v, params.scroll, sat)
           /\ RLe(params.session, sat) =>
                params.coef.b =
                  RAdd(Base(v).b, RMul(RDiv(params.session, sat), Q(1, 10)))
  /\ (phase = "init" /\ env.variant \in AttractorVariants) =>
       LET v   == env.variant
           sat == Saturation(v)
       IN  \A s \in ScrollGrid : \A t \in SessionGrid :
             RLe(sat, t) =>
               /\ Coefficients(v, s, t, Now) = Coefficients(v, s, sat, Now)
               /\ Symmetry(v, s, t) = Symmetry(v, s, sat)

\* C10 witness: a frame ran past the saturation point of its variant
C10_Witness ==
  /\ params.variant \in AttractorVariants
  /\ RLt(Saturation(params.variant), params.session)

\* C11 as stated: two successive frames that read the same scrollDepth and
\* sessionTime (the pointer is not read by the attractor frames) derive
\* identical parameters.
C11_Original ==
  [][(/\ params.variant \in AttractorVariants
      /\ params'.variant = params.variant
      /\ params'.scroll = params.scroll
      /\ params'.session = params.session) =>
       \A f \in ParamFields(params.variant) \ {"now"} :
         params'[f] = params[f]]_vars

\* C11 amended: what a frame derives is a function of the scrollDepth and
\* sessionTime it reads, the clock (Date.now()) and the canvas size, and of
\* nothing else: whenever a step stores new parameters, they are Params of
\* those four inputs of the frame callback that ran.
C11_FunctionOfInputs ==
  [][params' # params =>
       \E p \in pending' :
         params' =
           Params(env.variant,
                  IF env.variant \in RefVariants THEN scrollDepth'
                  ELSE closures'[p.g].scroll,
                  IF env.variant \in RefVariants THEN sessionTime'
                  ELSE closures'[p.g].session,
                  env.epoch + clock' * ClockStepMs,
                  canvasSize')]_vars

\* C11 witness: a frame derived parameters after the clock had advanced
C11_Witness ==
  /\ params.variant \in AttractorVariants
  /\ hist.sched = 1
  /\ params.now # env.epoch

\* C12: in the sphere variants every built entity set has exactly POINTS
\* points (1500, or 1000 on the 65% canvas) and every point the generator
\* can push lies within the radius the set was built for: |p| <= R.
C12_PointsWithinRadius ==
  (env.variant \in SphereVariants /\ entities.batch # 0) =>
    /\ pointCount = PointsOf(env.variant)
    /\ \A p \in GeneratedPoints(entities.radius) :
         RLe(NormSq(p), RMul(entities.radius, entities.radius))

\* C12 witness: the 65% variant has built its 1000 points, some of them off
\* the centre
C12_Witness ==
  /\ env.variant = "Sphere65"
  /\ entities.batch # 0
  /\ pointCount = Sphere65Points
  /\ \E p \in GeneratedPoints(entities.radius) : NormSq(p) # Num(0)

C14_CreatedOnlyAtMount ==
  [][(/\ env.variant \in TracingVariants
      /\ phase = "mounted" /\ phase' = "mounted"
      /\ entities.batch # 0) =>
       entities' = entities]_vars

\* C15 as stated: in the sphere variants a scroll event (and the effect
\* re-run it causes) leaves the point set unchanged.
C15_ScrollKeepsPoints ==
  [][(/\ env.variant \in SphereVariants
      /\ phase = "mounted" /\ phase' = "mounted"
      /\ window' = window
      /\ entities.batch # 0) =>
       entities' = entities]_vars

\* C16: whatever the point, project(p, 0, 0) returns
\* px = width/2 + p.x*D/(D+p.z), py = height/2 + p.y*D/(D+p.z) and
\* scale = D/(D+p.z), D being the variant's camera depth.
C16_ZeroRotationClosedForm ==
  (ent.call.by # "none" /\ ent.call.rotY = 0 /\ ent.call.rotX = 0) =>
    LET p     == ent.call.p
        D     == Num(CameraDepth(env.variant))
        scale == RDiv(D, RAdd(D, p.z))
    IN  /\ ent.call.scale = scale
        /\ ent.call.px = RAdd(Q(ent.size[1], 2), RMul(p.x, scale))
        /\ ent.call.py = RAdd(Q(ent.size[2], 2), RMul(p.y, scale))

\* C16 witness: project was called with both angles 0 on a point off both
\* axes of a canvas that is not square
C16_Witness ==
  /\ ent.call.by # "none"
  /\ ent.call.rotY = 0 /\ ent.call.rotX = 0
  /\ ent.call.p.x # Num(0) /\ ent.call.p.z # Num(0)
  /\ ent.size[1] # ent.size[2]
  /\ ent.call.scale # Num(1)

\* C17 as stated: in every frame of every sphere variant the rotX handed to
\* project lies in [-pi/3, pi/3], also when the pointer is active.
C17_TiltClamped ==
  ent.call.by = "draw" =>
    /\ -MaxTilt <= ent.call.rotX
    /\ ent.call.rotX <= MaxTilt

\* C18 as stated: for every viewport and every point drawn in a frame the
\* perspective scale D/(D+z) is positive and finite.
C18_ScalePositive ==
  ent.call.by = "draw" =>
    /\ IsFinite(ent.call.scale)
    /\ ent.call.scale[1] > 0

\* C19 as stated: from a tracer state that is not at its direct-iteration
\* target, one substep with the larger step fraction ends strictly closer to
\* the target than one with the smaller, for every frame delta.
C19_LargerStepCloser ==
  (ent.made /\ env.variant \in RefVariants) =>
    LET co     == FrameCoefficients
        target == Kernel(co, Pos(ent))
        After(deltaTime) ==
          Distance(Substep(co, Pos(ent),
                           StepFraction(env.variant, deltaTime)), target)
    IN  Distance(Pos(ent), target) >= 100 =>
          \A d1, d2 \in DeltasOf(env.variant) :
            d1 < d2 => After(d2) < After(d1)

\* C20 as stated: every attractor entity stays inside [-2, 2] x [-2, 2]:
\* the curve after every update, a tracer after every frame and for every
\* frame delta.
C20_InsideBox ==
  (ent.made /\ env.variant \in TracingVariants) =>
    Abs(ent.x) <= 2000 /\ Abs(ent.y) <= 2000

\* C21 as stated: for every grid point, frame time, frequency and amplitude
\* A > 0 the colour factor (z + A) / (2A) of a drawn point lies in [0, 1].
C21_ColorFactorInUnit ==
  wave.drawn.by # 0 =>
    /\ RLe(Num(0), wave.drawn.colorFactor)
    /\ RLe(wave.drawn.colorFactor, Num(1))

\* C30 as stated: on every mounted wave component the values behind the
\* labels are the values the next frame reads from the shared parameter
\* object.
C30_LabelShowsParameters ==
  \A i \in Instances :
    wave.label[i].mounted =>
      /\ wave.label[i].frequency = wave.ref.frequency
      /\ wave.label[i].amplitude = wave.ref.amplitude

\* C22 as stated: while the component stays mounted the pending tick of the
\* session interval is never cancelled or postponed, whatever scroll events
\* and render-loop restarts occur.
C22_TickNeverCancelled ==
  [][(phase = "mounted" /\ phase' = "mounted") =>
       timers \subseteq timers']_vars

\* C23: a frame callback leaves scrollDepth, sessionTime, the pointer position
\* and the pointer's active flag as it found them; only scroll, interval and
\* pointer handlers write them.
C23_FrameWritesNoInputs ==
  [][Frame => /\ scrollDepth' = scrollDepth
              /\ sessionTime' = sessionTime
              /\ mouse' = mouse]_vars

\* a tracer frame has sampled a non-zero scroll depth and session time, and
\* both are still what the handlers stored
C23_Witness ==
  /\ env.variant = "Tracer"
  /\ params.variant = "Tracer"
  /\ scrollDepth # Num(0)
  /\ sessionTime # Num(0)
  /\ params.scroll = scrollDepth
  /\ params.session = sessionTime

\* C24: in the sphere variants a mousemove or touchmove changes the drag
\* velocity only while a press or touch is held (begun by mousedown or
\* touchstart, not ended since by mouseup, mouseleave, touchend or
\* touchcancel), and after mouseleave, touchend or touchcancel the pointer's
\* active flag is false.
C24_DragOnlyWhileHeld ==
  [][/\ ( /\ HandleMouseMove \/ HandleTouchMove
          /\ <<ent.velocityX, ent.velocityY>>'
               # <<ent.velocityX, ent.velocityY>> ) => ent.held
     /\ (HandleMouseLeave \/ HandleTouchEnd) => ~ent'.mouse.active]_vars

\* before the first frame a held drag has set the velocity
C24_Witness ==
  /\ env.variant \in SphereVariants
  /\ ent.held
  /\ ent.t = 0
  /\ ent.velocityY # 0
  /\ ent.mouse.active

\* C25: at every moment at most one frame callback is pending, and it belongs
\* to the latest run of the animation effect: no interleaving of mount, effect
\* re-runs, resize, frames and unmount leaves an old loop scheduled beside the
\* new one.
C25_OneFramePending ==
  /\ Cardinality(pending) <= 1
  /\ \A p \in pending : p.g = gen

\* the animation effect has been re-run on a mounted component
C25_Witness ==
  /\ phase = "mounted"
  /\ hist.tornDown # {}
  /\ gen > 1
  /\ pending # {}
  /\ hist.sched = 1

\* C26 as stated: every frame of a sphere variant projects around the centre
\* of the canvas's current dimensions and uses the radius derived from them,
\* resizes included, with no scroll or remount needed in between.
C26_FrameFollowsResize ==
  [][Draw =>
       /\ ent.R = RadiusOf(env.variant, ent.canvas)
       /\ LET c == ent'.call
              pr == Project(env.variant, c.p, c.rotY, c.rotX, ent.canvas)
          IN  c.px = pr.px /\ c.py = pr.py]_vars

\* C27 as stated: in the sphere variants a scroll event changes only the dot
\* colour; neither the handler nor the re-render it causes touches the pointer
\* state or the dragging flag (nor the rotation, velocity and frame counter
\* kept beside them in the same effect).
C27_ScrollKeepsMotion ==
  [][(/\ env.variant \in SphereVariants
      /\ phase = "mounted" /\ phase' = "mounted"
      /\ HandleScroll \/ Rerender) => mouse' = mouse]_vars

\* C28 as stated: in the stable sphere, after any sequence of mount, resize
\* and scroll events every stored point lies within the currently stored
\* RADIUS, so that dist / RADIUS <= 1 and the alpha term of a frame is at
\* least 0.25.
C28_StoredPointsWithinRadius ==
  (env.variant = "Stable" /\ entities.batch # 0) =>
    \A p \in GeneratedPoints(entities.radius) :
      RLe(NormSq(p), RMul(radius, radius))

\* C29: after any number of AttractorCurve.update calls the trail holds at
\* most maxPoints points, its last element is the current position, and it is
\* the most recent positions in order: once full, each update drops exactly
\* the oldest point.
C29_TrailIsRecentPositions ==
  (ent.made /\ env.variant = "Curve") =>
    LET n == Len(ent.visited)
        k == Len(ent.points)
    IN  /\ k = IF n < MaxPoints THEN n ELSE MaxPoints
        /\ ent.points = SubSeq(ent.visited, n - k + 1, n)
        /\ k > 0 => ent.points[k] = Pos(ent)

\* the trail is full and an older position has been dropped
C29_Witness ==
  /\ env.variant = "Curve"
  /\ Len(ent.points) = MaxPoints
  /\ Len(ent.visited) > MaxPoints
  /\ ent.points[1] # ent.visited[1]
====
